---- MODULE Spec2Model ----
(***************************************************************************)
(* Model of src/kwk/yelp_business_search.py: the count prober, the         *)
(* location expander, the paginated fetcher and the driver loop.           *)
(*                                                                         *)
(* Strings that the code takes apart or puts together (city and location   *)
(* strings, postal codes) are sequences of one-character strings, so that  *)
(* split(', ') and the f-string "{city} {zip_code}" are computed, not      *)
(* assumed.  Search terms are never taken apart and stay TLA+ strings.     *)
(* A page DataFrame is represented by its number of rows.                  *)
(***************************************************************************)
EXTENDS Integers, Sequences, FiniteSets, TLC

(* ------------------------------ program constants ---------------------- *)
MAX_LIMIT == 50
MAX_RESULTS == 1000
ZIP_SPLIT_THRESHOLD == 1000
HTTP_OK == 200

(* ------------------------------ bounds of the model -------------------- *)
\* reported totals lie within TotalSpread of the page size and of the API cap,
\* or are one of TotalBases
TotalSpread == 1
\* a page may hold up to MaxShort fewer businesses than requested ...
MaxShort == 1
\* ... or up to MaxOver more than requested
MaxOver == 1

TotalBases == {0, 80, 1500}
Totals ==
  TotalBases \cup UNION {(b - TotalSpread)..(b + TotalSpread) : b \in {MAX_LIMIT, MAX_RESULTS}}
PageCounts(lim) == {n \in {0, 1} \cup ((lim - MaxShort)..(lim + MaxOver)) : n >= 0}
ErrorStatuses == {429, 500}

Min(a, b) == IF a <= b THEN a ELSE b

(* term: None or a search phrase *)
None == "None"
BlackOwned == "Black owned"
NoTotal == [known |-> FALSE, total |-> 0]
NoRequest == [limit |-> 0, offset |-> 0]
NoTable == [rows |-> 0, _location |-> <<>>, _term |-> "", _is_complete |-> ""]

VARIABLES
  pc,              \* position of yelp_location_search: idle / loop / await / returned / raised
  location, term,  \* arguments of the current yelp_location_search call
  running_count, limit, total_count,
  page_dfs,        \* rows held by the accumulated page frames (each frame is non-empty)
  is_complete,
  search_results,  \* the returned table (row count and metadata columns), NoTable if none
  request,         \* the page request in flight (limit and offset of page_url), if any
  reported,        \* latest total the API reported during this call, if any
  failed,          \* a page request of this call returned non-200
  empty_short,     \* a 200 page of this call held no business while running_count < its total
  steady           \* every 200 page so far reported the same total and held no more
                   \* businesses than requested nor than that total leaves after the offset

fvars == <<pc, location, term, running_count, limit, total_count, page_dfs,
           is_complete, search_results, request, reported, failed, empty_short, steady>>

VARIABLES
  dpc,              \* position of the driver: call / probe / lookup / fetch / done / crashed
  argv_cities,      \* args.cities, the words given to --cities
  cities, terms,    \* lines 166-174
  ci, ti, li,       \* positions of the three for loops (1-based)
  locations, expected_results,  \* line 183
  expansion,        \* the yelp_city_locations call that produced them: city, term, probe response
  table_exists, store,  \* the destination table: whether it exists, its (_location, _term) rows
  iter              \* what the current pass of the location loop did: lookup, fetched, appended, ended

dvars == <<dpc, argv_cities, cities, terms, ci, ti, li, locations, expected_results,
           expansion, table_exists, store, iter>>

vars == <<fvars, dvars>>

(* ------------------------------ yelp_location_search ------------------- *)

\* mutant: the loop condition does not ask for a positive limit
WhileCondAnyLimit(rc, lim, tot) ==
  /\ rc + lim <= MAX_RESULTS
  /\ rc + lim <= tot

\* line 98: the while condition
WhileCond(rc, lim, tot) ==
  /\ rc + lim <= MAX_RESULTS
  /\ rc + lim <= tot
  /\ lim > 0

\* mutant: the page-size cap is forgotten when the next limit is computed
NextLimitUncapped(rc, tot) == Min(tot, MAX_RESULTS) - rc

\* line 126: the next page size after running_count was advanced to rc
NextLimit(rc, tot) ==
  IF rc + MAX_LIMIT <= Min(tot, MAX_RESULTS)
  THEN MAX_LIMIT
  ELSE Min(tot, MAX_RESULTS) - rc

\* mutant: an empty page does not end the loop
PageLimitNoStop(page_count, rc, tot) == NextLimit(rc + page_count, tot)

\* lines 113-126: limit after a 200 page with page_count businesses
PageLimit(page_count, rc, tot) ==
  IF page_count = 0 THEN 0 ELSE NextLimit(rc + page_count, tot)

\* mutant: a failed request leaves limit as it was, so the loop asks again
LimitAfterErrorKept(lim) == lim

\* line 131: limit after a non-200 response
LimitAfterError(lim) == 0

\* mutant: completeness is judged against the API cap instead of the total
IsCompleteCapped(rc, tot) == rc >= Min(tot, MAX_RESULTS)

\* mutant: reaching the total exactly still counts as incomplete
IsCompleteStrict(rc, tot) == IF rc <= tot THEN FALSE ELSE TRUE

\* lines 133-139
IsComplete(rc, tot) == IF rc < tot THEN FALSE ELSE TRUE

\* str(is_complete), line 153
Str(b) == IF b THEN "True" ELSE "False"

\* term if term else '', lines 152 and 186
TermOrEmpty(t) == IF t = None THEN "" ELSE t

(* ------------------------------ strings ------------------------------- *)

\* s[i..] starts with sep
StartsAt(s, sep, i) ==
  /\ i + Len(sep) - 1 <= Len(s)
  /\ \A k \in 1..Len(sep) : s[i + k - 1] = sep[k]

\* str.split(sep) of Python, on character sequences
RECURSIVE Split(_, _)
Split(s, sep) ==
  LET hits == {i \in 1..Len(s) : StartsAt(s, sep, i)} IN
  IF hits = {} THEN <<s>>
  ELSE LET i == CHOOSE h \in hits : \A g \in hits : h <= g IN
       <<SubSeq(s, 1, i - 1)>> \o Split(SubSeq(s, i + Len(sep), Len(s)), sep)

\* sep.join(words) of Python
RECURSIVE Join(_, _)
Join(sep, words) ==
  IF words = <<>> THEN <<>>
  ELSE IF Len(words) = 1 THEN words[1]
  ELSE words[1] \o sep \o Join(sep, Tail(words))

CommaSpace == <<",", " ">>
Space == <<" ">>
Semicolon == <<";">>

(* ------------------------------ inputs of the driver ------------------- *)

\* --cities words: one city; two cities in the documented "a, x; b, y" form;
\* the same city twice; two cities without a space after the semicolon
ArgLists ==
  { << <<"A", ",">>, <<"X">> >>,
    << <<"A", ",">>, <<"X", ";">>, <<"B", ",">>, <<"Y">> >>,
    << <<"A", ",">>, <<"X", ";", "A", ",">>, <<"X">> >>,
    << <<"B", ",">>, <<"Y", ";", "A", ",">>, <<"X">> >> }

\* lines 166-172: terms from the flags --black_owned and --all
TermsOf(black_owned, all) ==
  (IF black_owned THEN <<BlackOwned>> ELSE <<>>) \o (IF all THEN <<None>> ELSE <<>>)

\* line 174
CitiesOf(words) == Split(Join(Space, words), Semicolon)

\* zipcodes.filter_by(city=..., state=...), lines 73-74: the postal codes of the
\* package's database whose city and state fields equal the arguments exactly
ZipCodes(cityname, state) ==
  IF cityname = <<"A">> /\ state = <<"X">> THEN << <<"1">>, <<"2">> >>
  ELSE IF cityname = <<"B">> /\ state = <<"Y">> THEN << <<"7">> >>
  ELSE <<>>

\* rows the destination table may hold before the run
CityA == <<"A", ",", " ", "X">>
InitialRows == { <<CityA, "">>, <<CityA \o Space \o <<"1">>, BlackOwned>> }

\* probe responses; page responses of the fetches the driver starts
ProbeTotals ==
  {0} \cup ((ZIP_SPLIT_THRESHOLD - TotalSpread)..(ZIP_SPLIT_THRESHOLD + TotalSpread))
DriverTotals == {0, 80}
DriverPageCounts(lim) == {0, lim}

NoExpansion == [city |-> <<>>, term |-> None, status |-> 0, total |-> 0]
NoIter == [lookup |-> "none", fetched |-> FALSE, appended |-> FALSE, ended |-> FALSE]

(* ------------------------------ prober and expander -------------------- *)

\* mutant: the reported total is read whatever the status
ExpectedResultCountAnyStatus(status, total) == total

\* yelp_expected_result_count, lines 52-59
ExpectedResultCount(status, total) ==
  IF status = HTTP_OK THEN total ELSE 0

\* mutant: the split starts at the threshold itself
ExpandedLocationsAtThreshold(city, expected) ==
  IF expected >= ZIP_SPLIT_THRESHOLD
  THEN LET parts == Split(city, CommaSpace)
           city_zips == ZipCodes(parts[1], parts[2])
       IN [i \in 1..Len(city_zips) |-> city \o Space \o city_zips[i]]
  ELSE <<city>>

\* yelp_city_locations, lines 70-78
ExpandedLocations(city, expected) ==
  IF expected > ZIP_SPLIT_THRESHOLD
  THEN LET parts == Split(city, CommaSpace)
           city_zips == ZipCodes(parts[1], parts[2])
       IN [i \in 1..Len(city_zips) |-> city \o Space \o city_zips[i]]
  ELSE <<city>>

(* ------------------------------ initial states ------------------------- *)

\* lines 91-96: the state of yelp_location_search on entry to its loop
FetchEntry(loc, trm) ==
  [pc |-> "loop", location |-> loc, term |-> trm, page_dfs |-> 0,
   running_count |-> 0, limit |-> MAX_LIMIT, total_count |-> 0 + MAX_LIMIT]

FetchIdle ==
  /\ pc = "idle" /\ location = <<>> /\ term = None
  /\ page_dfs = 0 /\ running_count = 0 /\ limit = 0 /\ total_count = 0

FetchHistoryInit ==
  /\ is_complete = FALSE
  /\ search_results = NoTable
  /\ request = NoRequest
  /\ reported = NoTotal
  /\ failed = FALSE
  /\ empty_short = FALSE
  /\ steady = TRUE

DriverIdle ==
  /\ dpc = "call"
  /\ argv_cities = <<>> /\ cities = <<>> /\ terms = <<>>
  /\ ci = 0 /\ ti = 0 /\ li = 0
  /\ locations = <<>> /\ expected_results = 0
  /\ expansion = NoExpansion
  /\ table_exists = FALSE /\ store = {}
  /\ iter = NoIter

\* one call of yelp_location_search(location="A, X", term=None)
Init ==
  /\ LET e == FetchEntry(CityA, None) IN
       /\ pc = e.pc /\ location = e.location /\ term = e.term
       /\ page_dfs = e.page_dfs /\ running_count = e.running_count
       /\ limit = e.limit /\ total_count = e.total_count
  /\ FetchHistoryInit
  /\ DriverIdle

\* the script started from the command line, lines 158-177
DriverInit ==
  /\ FetchIdle
  /\ FetchHistoryInit
  /\ argv_cities \in ArgLists
  /\ cities = CitiesOf(argv_cities)
  /\ \E black_owned \in BOOLEAN, all \in BOOLEAN : terms = TermsOf(black_owned, all)
  /\ ci = 1 /\ ti = 1 /\ li = 0
  /\ dpc = IF terms = <<>> THEN "done" ELSE "probe"
  /\ locations = <<>> /\ expected_results = 0
  /\ expansion = NoExpansion
  /\ table_exists \in BOOLEAN
  /\ store \in (IF table_exists THEN SUBSET InitialRows ELSE {{}})
  /\ iter = NoIter

(* ------------------------------ yelp_location_search: steps ------------ *)

\* lines 98-105: the loop condition holds and the page request is sent
SendRequest ==
  /\ pc = "loop"
  /\ WhileCond(running_count, limit, total_count)
  /\ request' = [limit |-> limit, offset |-> running_count]
  /\ pc' = "await"
  /\ UNCHANGED <<location, term, running_count, limit, total_count, page_dfs,
                 is_complete, search_results, reported, failed, empty_short, steady>>
  /\ UNCHANGED dvars

\* lines 107-126: the page request is answered 200 with `total` and page_count businesses
Receive200(total, page_count) ==
  /\ pc = "await"
  /\ total_count' = total
  /\ running_count' = IF page_count = 0 THEN running_count ELSE running_count + page_count
  /\ page_dfs' = IF page_count = 0 THEN page_dfs ELSE page_dfs + page_count
  /\ limit' = PageLimit(page_count, running_count, total)
  /\ reported' = [known |-> TRUE, total |-> total]
  /\ empty_short' = (empty_short \/ (page_count = 0 /\ running_count < total))
  /\ steady' = (/\ steady
                /\ reported.known => reported.total = total
                /\ page_count <= request.limit
                /\ running_count + page_count <= total)
  /\ request' = NoRequest
  /\ pc' = "loop"
  /\ UNCHANGED <<location, term, is_complete, search_results, failed>>
  /\ UNCHANGED dvars

\* lines 128-131: the page request is answered with a non-200 status (with a
\* JSON body, as the API sends; line 130 decodes it only to print it)
ReceiveError(status) ==
  /\ pc = "await"
  /\ status # HTTP_OK
  /\ limit' = LimitAfterError(limit)
  /\ failed' = TRUE
  /\ request' = NoRequest
  /\ pc' = "loop"
  /\ UNCHANGED <<location, term, running_count, total_count, page_dfs, is_complete,
                 search_results, reported, empty_short, steady>>
  /\ UNCHANGED dvars

\* lines 133-155: the loop condition fails; the flag is computed and the table
\* assembled.  With no page accumulated search_results is pandas.DataFrame(),
\* which has no columns, and selecting JSON_COLUMNS from it (line 147) raises
\* KeyError; the driver calls the function outside any try (line 204), so the
\* exception ends the script.
ExitLoop ==
  /\ pc = "loop"
  /\ ~WhileCond(running_count, limit, total_count)
  /\ is_complete' = IsComplete(running_count, total_count)
  /\ IF page_dfs > 0
     THEN /\ search_results' = [rows |-> page_dfs,
                                _location |-> location,
                                _term |-> TermOrEmpty(term),
                                _is_complete |-> Str(is_complete')]
          /\ pc' = "returned"
          /\ UNCHANGED <<dpc, iter>>
     ELSE /\ search_results' = NoTable
          /\ pc' = "raised"
          /\ dpc' = IF dpc = "fetch" THEN "crashed" ELSE dpc
          /\ iter' = IF dpc = "fetch" THEN [iter EXCEPT !.ended = TRUE] ELSE iter
  /\ UNCHANGED <<location, term, running_count, limit, total_count, page_dfs,
                 request, reported, failed, empty_short, steady>>
  /\ UNCHANGED <<argv_cities, cities, terms, ci, ti, li, locations, expected_results,
                 expansion, table_exists, store>>

(* ------------------------------ driver: steps --------------------------- *)

\* lines 179-180: the next (city, term) of the two outer for loops
NextPair(c, t) ==
  IF t < Len(terms) THEN [ci |-> c, ti |-> t + 1, dpc |-> "probe"]
  ELSE IF c < Len(cities) THEN [ci |-> c + 1, ti |-> 1, dpc |-> "probe"]
  ELSE [ci |-> c, ti |-> t, dpc |-> "done"]

\* line 185: the next location, or the next (city, term) when the list is used up
AfterLocation ==
  IF li < Len(locations)
  THEN /\ li' = li + 1 /\ dpc' = "lookup" /\ UNCHANGED <<ci, ti>>
  ELSE LET n == NextPair(ci, ti) IN
       /\ ci' = n.ci /\ ti' = n.ti /\ dpc' = n.dpc /\ UNCHANGED li

\* line 183 (lines 45-80): the probe is answered and the city is expanded
CityLocations(status, total) ==
  /\ dpc = "probe"
  /\ LET city == cities[ci]
         trm == terms[ti]
         expected == ExpectedResultCount(status, total)
         locs == ExpandedLocations(city, expected)
     IN /\ expected_results' = expected
        /\ locations' = locs
        /\ expansion' = [city |-> city, term |-> trm, status |-> status, total |-> total]
        /\ IF locs # <<>>
           THEN /\ li' = 1 /\ dpc' = "lookup" /\ UNCHANGED <<ci, ti>>
           ELSE LET n == NextPair(ci, ti) IN
                /\ ci' = n.ci /\ ti' = n.ti /\ dpc' = n.dpc /\ li' = 0
  /\ UNCHANGED <<argv_cities, cities, terms, table_exists, store, iter>>
  /\ UNCHANGED fvars

\* the store row that lines 195-196 match: (_location, _term)
StoreKey(loc, trm) == <<loc, TermOrEmpty(trm)>>

\* lines 186-204: the store is asked for the pair.  "rows": the query returns a
\* row; "empty": it returns none; "error": read_sql raises (always so when the
\* table is absent) and loaded_data becomes the empty frame.  With an empty
\* loaded_data yelp_location_search is entered.
Lookup(outcome) ==
  /\ dpc = "lookup"
  /\ LET loc == locations[li]
         trm == terms[ti]
     IN /\ CASE outcome = "rows"  -> table_exists /\ StoreKey(loc, trm) \in store
             [] outcome = "empty" -> table_exists /\ StoreKey(loc, trm) \notin store
             [] outcome = "error" -> TRUE
        /\ IF outcome = "rows"
           THEN /\ iter' = [lookup |-> outcome, fetched |-> FALSE,
                            appended |-> FALSE, ended |-> TRUE]
                /\ AfterLocation
                /\ UNCHANGED fvars
           ELSE /\ iter' = [lookup |-> outcome, fetched |-> TRUE,
                            appended |-> FALSE, ended |-> FALSE]
                /\ dpc' = "fetch"
                /\ UNCHANGED <<ci, ti, li>>
                /\ LET e == FetchEntry(loc, trm) IN
                   /\ pc' = e.pc /\ location' = e.location /\ term' = e.term
                   /\ page_dfs' = e.page_dfs /\ running_count' = e.running_count
                   /\ limit' = e.limit /\ total_count' = e.total_count
                /\ is_complete' = FALSE
                /\ search_results' = NoTable
                /\ request' = NoRequest
                /\ reported' = NoTotal
                /\ failed' = FALSE
                /\ empty_short' = FALSE
                /\ steady' = TRUE
  /\ UNCHANGED <<argv_cities, cities, terms, locations, expected_results, expansion,
                 table_exists, store>>

\* lines 208-215: to_sql on the returned table.  to_sql is called without
\* if_exists, so it creates the table and raises when the table exists; any
\* raise is printed and the loop goes on.
ToSql(ok) ==
  /\ dpc = "fetch"
  /\ pc = "returned"
  /\ ok => ~table_exists
  /\ IF ok
     THEN /\ table_exists' = TRUE
          /\ store' = store \cup {<<search_results._location, search_results._term>>}
     ELSE UNCHANGED <<table_exists, store>>
  /\ iter' = [iter EXCEPT !.appended = TRUE, !.ended = TRUE]
  /\ AfterLocation
  /\ pc' = "idle"
  /\ UNCHANGED <<location, term, running_count, limit, total_count, page_dfs,
                 is_complete, search_results, request, reported, failed, empty_short, steady>>
  /\ UNCHANGED <<argv_cities, cities, terms, locations, expected_results, expansion>>

(* ------------------------------ specifications -------------------------- *)

\* one call of yelp_location_search against every API behaviour of the bounds
Next ==
  \/ SendRequest
  \/ \E total \in Totals, page_count \in PageCounts(request.limit) :
       Receive200(total, page_count)
  \/ \E status \in ErrorStatuses : ReceiveError(status)
  \/ ExitLoop

Spec == Init /\ [][Next]_vars

\* every step is a step of sequential code, so no enabled step is put off for ever
LiveSpec == Init /\ [][Next]_vars /\ WF_vars(Next)

\* the whole script
DriverNext ==
  \/ \E status \in {HTTP_OK} \cup ErrorStatuses, total \in ProbeTotals :
       CityLocations(status, total)
  \/ \E outcome \in {"rows", "empty", "error"} : Lookup(outcome)
  \/ SendRequest
  \/ \E total \in DriverTotals, page_count \in DriverPageCounts(request.limit) :
       Receive200(total, page_count)
  \/ \E status \in ErrorStatuses : ReceiveError(status)
  \/ ExitLoop
  \/ \E ok \in BOOLEAN : ToSql(ok)

DriverSpec == DriverInit /\ [][DriverNext]_vars

(* ------------------------------ properties ------------------------------ *)

\* yelp_location_search has left its loop and either returned or raised
Exited == pc \in {"returned", "raised"}

\* C1: every page request has limit <= 50 and offset + limit <= 1000, whatever
\* the API answered before
C1_RequestsWithinCaps ==
  pc = "await" =>
    /\ request.limit <= MAX_LIMIT
    /\ request.offset + request.limit <= MAX_RESULTS

\* a last, shortened page that ends exactly at the cap, after irregular pages
C1_Witness ==
  /\ pc = "await"
  /\ request.offset + request.limit = MAX_RESULTS
  /\ request.limit < MAX_LIMIT
  /\ ~steady

\* C2 as stated: if every page request was answered 200, then at loop exit
\* is_complete is true and running_count = total_count, for every total
C2_Original ==
  (Exited /\ ~failed) => (is_complete /\ running_count = total_count)

\* C2 amended: if every page request was answered 200, no page was empty while
\* running_count was below its total, and the last total is at most 1000, then
\* is_complete is true and running_count >= total_count, with equality when the
\* total never changed and no page held more than was requested or than the
\* total leaves after its offset
C2_CompleteWithinCap ==
  (Exited /\ ~failed /\ ~empty_short /\ total_count <= MAX_RESULTS) =>
    /\ is_complete
    /\ running_count >= total_count
    /\ steady => running_count = total_count

\* two pages, 50 then the rest, reach a total between 51 and 100
C2_Witness ==
  /\ pc = "returned"
  /\ ~failed /\ ~empty_short /\ steady
  /\ running_count > MAX_LIMIT
  /\ running_count = total_count
  /\ search_results._is_complete = "True"

\* C3: the flag is true iff the API reported a total and running_count reached
\* the latest one; it is false after any non-200 response (the first included)
\* and when the fetch stopped below the reported total
C3_FlagIffAllRetrieved ==
  Exited =>
    /\ is_complete <=> (reported.known /\ running_count >= reported.total)
    /\ failed => ~is_complete
    /\ (reported.known /\ running_count < reported.total) => ~is_complete
    /\ pc = "returned" => search_results._is_complete = Str(is_complete)

\* the fetch stopped at the API cap below the reported total
C3_Witness ==
  /\ pc = "returned"
  /\ ~failed /\ ~empty_short
  /\ running_count = MAX_RESULTS
  /\ reported.total > MAX_RESULTS
  /\ ~is_complete

\* C4 as stated: yelp_location_search never fails, it always returns a table
C4_AlwaysReturns == pc # "raised"

C10_LoopTerminates ==
  /\ <>Exited
  /\ [][pc = "await" =>
          \/ limit' = 0 /\ running_count' = running_count
          \/ running_count' > running_count]_vars
  /\ [](pc = "await" => running_count < Min(total_count, MAX_RESULTS))

\* the loop ran to the cap over pages of changing totals and short pages
C10_Witness ==
  /\ Exited /\ ~steady /\ ~failed /\ ~empty_short
  /\ running_count >= MAX_RESULTS

\* C5 as stated: in a finished pass of the location loop the fetcher was run,
\* and an append attempted, iff the lookup returned no row or raised
C5_FetchAndAppendIffNotLoaded ==
  iter.ended =>
    /\ iter.fetched <=> iter.lookup \in {"empty", "error"}
    /\ iter.appended <=> iter.lookup \in {"empty", "error"}

\* C8: the expander returns [city] for a probed total <= 1000, and for a larger
\* one a location "{city} {postal_code}" per postal code of the city and state;
\* with a 200 probe the total is returned as reported
C8_ExpanderLocations ==
  expansion # NoExpansion =>
    LET city == expansion.city
        parts == Split(city, CommaSpace)
        zips == ZipCodes(parts[1], parts[2])
    IN /\ expansion.status = HTTP_OK => expected_results = expansion.total
       /\ expected_results <= ZIP_SPLIT_THRESHOLD => locations = <<city>>
       /\ expected_results > ZIP_SPLIT_THRESHOLD =>
            /\ Len(locations) = Len(zips)
            /\ \A i \in 1..Len(zips) :
                 /\ locations[i] = city \o <<" ">> \o zips[i]
                 /\ locations[i] # city

\* a city with two postal codes is split in two
C8_Witness ==
  /\ expansion.status = HTTP_OK
  /\ expected_results = ZIP_SPLIT_THRESHOLD + 1
  /\ Len(locations) = 2
  /\ locations[2] = <<"A", ",", " ", "X", " ", "2">>

\* C9: a non-200 probe gives a total of 0 and the single location [city]
C9_ProbeErrorIsZero ==
  (expansion # NoExpansion /\ expansion.status # HTTP_OK) =>
    /\ expected_results = 0
    /\ locations = <<expansion.city>>

\* a failed probe whose body would have reported more than 1000
C9_Witness ==
  /\ expansion.status = 500
  /\ expansion.total > ZIP_SPLIT_THRESHOLD
  /\ expected_results = 0
  /\ locations = <<expansion.city>>

====
